---------------------------- MODULE Spec2Model ----------------------------
(***************************************************************************)
(* Model of src/apriori.py: the Apriori frequent item-set miner.           *)
(*                                                                         *)
(* A transaction log is a sequence of raw records, each a sequence of      *)
(* tokens.  main() truncates the output file, builds an Apriori object and *)
(* calls get_frequent_itemsets(), which loads the log record by record,    *)
(* prunes the level-1 table and then runs the level loop, appending the    *)
(* survivors of every level >= min_itemset_size to the output file.        *)
(***************************************************************************)
EXTENDS Integers, Sequences, FiniteSets, TLC

(* ---- bounds of the model ---- *)
NItems == 3
MaxTrans == 2
MaxSigma == 2
MaxMinSize == 2

Items == 1..NItems

(* ---- tokens of the log file and int() ---- *)
Token(i) == ToString(i)
NonNumeric == "x"

Digits == 0..9

IsInt(tok) == \E i \in Digits : Token(i) = tok

ParseInt(tok) == CHOOSE i \in Digits : Token(i) = tok

Range(s) == {s[i] : i \in DOMAIN s}

(* ---- Python's sorted() and tuple comparison ---- *)
TupleLess(a, b) ==
  \/ \E i \in 1..Len(a) :
       /\ i <= Len(b)
       /\ a[i] < b[i]
       /\ \A j \in 1..(i - 1) : a[j] = b[j]
  \/ /\ Len(a) < Len(b)
     /\ \A j \in 1..Len(a) : a[j] = b[j]

(* sorted(S): the n-th element is the one with n - 1 elements before it *)
SortInts(S) ==
  [n \in 1..Cardinality(S) |->
     CHOOSE x \in S : Cardinality({y \in S : y < x}) = n - 1]

SortTuples(S) ==
  [n \in 1..Cardinality(S) |->
     CHOOSE x \in S : Cardinality({y \in S : TupleLess(y, x)}) = n - 1]

(* ---- the raw records the log may hold ---- *)
Descending(S) ==
  [n \in 1..Cardinality(S) |->
     Token(CHOOSE x \in S : Cardinality({y \in S : y > x}) = n - 1)]

CleanRecords == {Descending(S) : S \in SUBSET Items}
DuplicateRecords == {<<Token(1), Token(1)>>}
MalformedRecords == {<<NonNumeric>>, <<Token(1), NonNumeric>>}
RawRecords == CleanRecords \cup DuplicateRecords \cup MalformedRecords

Logs == UNION {[1..n -> RawRecords] : n \in 0..MaxTrans}

(* the scenario of the specification: five transactions over four items *)
ScenarioLog ==
  << <<Token(1), Token(2), Token(3)>>,
     <<Token(1), Token(2), Token(4)>>,
     <<Token(1), Token(2), Token(3), Token(4)>>,
     <<Token(1), Token(3), Token(4)>>,
     <<Token(2), Token(3), Token(4)>> >>

Configurations ==
  (Logs \X (1..MaxMinSize) \X (1..MaxSigma))
    \cup {<<ScenarioLog, n, s>> : n \in {2}, s \in {2, 3}}

StaleRecord == <<1, 0, 7>>

VARIABLES
  transaction_log,      \* the lines of the log file
  min_itemset_size,     \* self.min_itemset_size
  sigma,                \* self.sigma
  output_file,          \* the lines of the output file
  candidate_item_sets,  \* self.candidate_item_sets
  frequent_item_sets,   \* self.frequent_item_sets: level -> table
  item_set_length,      \* the loop variable of get_frequent_itemsets
  pos,                  \* number of log lines the loader has consumed
  pc,                   \* "main", "load", "mine", "done", "error"
  rerun,                \* TRUE once main() has been started again
  prior                 \* content of the output file when this run began

vars == <<transaction_log, min_itemset_size, sigma, output_file,
          candidate_item_sets, frequent_item_sets, item_set_length, pos, pc,
          rerun, prior>>

config == <<transaction_log, min_itemset_size, sigma>>

(* ---- tables: Counter / defaultdict(int) as functions ---- *)
EmptyTable == [s \in {} |-> 0]

Table(reg, k) == IF k \in DOMAIN reg THEN reg[k] ELSE EmptyTable

(* table[item_set] += 1 for every item_set of every list of lists *)
Positions(lists) ==
  UNION {{<<i, j>> : j \in DOMAIN lists[i]} : i \in DOMAIN lists}

Occurrences(lists, key) ==
  Cardinality({p \in Positions(lists) : lists[p[1]][p[2]] = key})

CountLists(table, lists) ==
  [key \in DOMAIN table \cup {lists[p[1]][p[2]] : p \in Positions(lists)} |->
     (IF key \in DOMAIN table THEN table[key] ELSE 0)
       + Occurrences(lists, key)]

SetLevel(reg, k, table) ==
  [l \in DOMAIN reg \cup {k} |-> IF l = k THEN table ELSE reg[l]]

(* ---- _get_frequent_itemsets: prune a level's table below sigma ---- *)
Survives_offbyone(count, s) == count >= s - 1

Survives(count, s) == count >= s

Prune(table, s) ==
  [key \in {x \in DOMAIN table : Survives(table[x], s)} |-> table[key]]


(* ---- _get_transaction_log_data: one log line ---- *)
Malformed(rec) == \E i \in DOMAIN rec : ~IsInt(rec[i])

Skus(rec) == {ParseInt(rec[i]) : i \in DOMAIN rec}

Singletons(rec) == {<<sku>> : sku \in Skus(rec)}

Retained_strict(n, minimum) == n > minimum

Retained_any(n, minimum) == TRUE

Retained(n, minimum) == n >= minimum

LoadStep(cands, reg, rec, minimum) ==
  LET itemsets == SortTuples(Singletons(rec))
  IN IF Retained(Len(itemsets), minimum)
     THEN [cands |-> Append(cands, itemsets),
           reg |-> SetLevel(reg, 1,
                            CountLists(Table(reg, 1), <<itemsets>>))]
     ELSE [cands |-> cands, reg |-> reg]

LoadEnd(reg, s) == SetLevel(reg, 1, Prune(Table(reg, 1), s))

(* ---- get_frequent_itemsets: narrowing and the Fk-1 x Fk-1 join ---- *)
Narrow(view, frequent) == SelectSeq(view, LAMBDA s : s \in DOMAIN frequent)

Prefix(x) == SubSeq(x, 1, Len(x) - 1)

Joinable_noprefix(x, y) == TupleLess(x, y)

Joinable(x, y) == TupleLess(x, y) /\ Prefix(x) = Prefix(y)

Merge_concat(x, y) == x \o y

Merge(x, y) == SortInts(Range(x) \cup Range(y))

(* [merge(x, y) for x in list for y in list if joinable(x, y)]: the pairs
   of positions that pass the test, in the order of the two loops *)
JoinPairs(list) ==
  {p \in (DOMAIN list) \X (DOMAIN list) : Joinable(list[p[1]], list[p[2]])}

PairBefore(q, p) == q[1] < p[1] \/ (q[1] = p[1] /\ q[2] < p[2])

Join(list) ==
  [n \in 1..Cardinality(JoinPairs(list)) |->
     LET p == CHOOSE p \in JoinPairs(list) :
                Cardinality({q \in JoinPairs(list) : PairBefore(q, p)}) = n - 1
     IN Merge(list[p[1]], list[p[2]])]

NextCandidates(cands, frequent) ==
  [i \in 1..Len(cands) |-> Join(Narrow(cands[i], frequent))]

MineStep(cands, reg, k, s) ==
  LET generated == NextCandidates(cands, Table(reg, k - 1))
      counted == CountLists(Table(reg, k), generated)
  IN [cands |-> generated, reg |-> SetLevel(reg, k, Prune(counted, s))]

LoopGuard_strict(reg, k) == Cardinality(DOMAIN Table(reg, k - 1)) > k

LoopGuard(reg, k) == Cardinality(DOMAIN Table(reg, k - 1)) >= k

(* ---- get_frequent_itemsets: writing one level to the output file ---- *)
Emits(k, minimum) == k >= minimum

EntryBefore_ascending(table, a, b) ==
  \/ table[a] < table[b]
  \/ table[a] = table[b] /\ TupleLess(a, b)

EntryBefore(table, a, b) ==
  \/ table[a] > table[b]
  \/ table[a] = table[b] /\ TupleLess(a, b)

SortEntries(table) ==
  [n \in 1..Cardinality(DOMAIN table) |->
     CHOOSE a \in DOMAIN table :
       Cardinality({b \in DOMAIN table : EntryBefore(table, b, a)}) = n - 1]

Line(k, frequency, item_set) == <<k, frequency>> \o item_set

Lines(k, table) ==
  [n \in 1..Cardinality(DOMAIN table) |->
     Line(k, table[SortEntries(table)[n]], SortEntries(table)[n])]

(* ---- the state machine ---- *)
Init ==
  /\ \E c \in Configurations :
       /\ transaction_log = c[1]
       /\ min_itemset_size = c[2]
       /\ sigma = c[3]
  /\ output_file = <<StaleRecord>>
  /\ candidate_item_sets = <<>>
  /\ frequent_item_sets = <<>>
  /\ item_set_length = 0
  /\ pos = 0
  /\ pc = "main"
  /\ rerun = FALSE
  /\ prior = <<StaleRecord>>

Truncate_keep ==
  /\ pc = "main"
  /\ candidate_item_sets' = <<>>
  /\ frequent_item_sets' = <<>>
  /\ pc' = "load"
  /\ UNCHANGED <<config, output_file, item_set_length, pos, rerun, prior>>

Truncate ==
  /\ pc = "main"
  /\ output_file' = <<>>
  /\ candidate_item_sets' = <<>>
  /\ frequent_item_sets' = <<>>
  /\ pc' = "load"
  /\ UNCHANGED <<config, item_set_length, pos, rerun, prior>>

RaiseValueError_skip ==
  /\ pc' = "load"
  /\ pos' = pos + 1
  /\ UNCHANGED <<candidate_item_sets, frequent_item_sets>>

RaiseValueError ==
  /\ pc' = "error"
  /\ UNCHANGED <<candidate_item_sets, frequent_item_sets, pos>>

LoadRecord ==
  /\ pc = "load"
  /\ pos < Len(transaction_log)
  /\ LET rec == transaction_log[pos + 1]
     IN IF Malformed(rec)
        THEN RaiseValueError
        ELSE \E st \in {LoadStep(candidate_item_sets, frequent_item_sets,
                                 rec, min_itemset_size)} :
                /\ candidate_item_sets' = st.cands
                /\ frequent_item_sets' = st.reg
                /\ pos' = pos + 1
                /\ pc' = "load"
  /\ UNCHANGED <<config, output_file, item_set_length, rerun, prior>>

FinishLoad ==
  /\ pc = "load"
  /\ pos = Len(transaction_log)
  /\ frequent_item_sets' = LoadEnd(frequent_item_sets, sigma)
  /\ item_set_length' = 2
  /\ pc' = "mine"
  /\ UNCHANGED <<config, output_file, candidate_item_sets, pos, rerun, prior>>

MineLevel ==
  /\ pc = "mine"
  /\ LoopGuard(frequent_item_sets, item_set_length)
  /\ \E st \in {MineStep(candidate_item_sets, frequent_item_sets,
                           item_set_length, sigma)} :
        /\ candidate_item_sets' = st.cands
        /\ frequent_item_sets' = st.reg
        /\ output_file' =
             IF Emits(item_set_length, min_itemset_size)
             THEN output_file \o Lines(item_set_length, st.reg[item_set_length])
             ELSE output_file
        /\ item_set_length' = item_set_length + 1
  /\ UNCHANGED <<config, pos, pc, rerun, prior>>

Finish ==
  /\ pc = "mine"
  /\ ~LoopGuard(frequent_item_sets, item_set_length)
  /\ pc' = "done"
  /\ UNCHANGED <<config, output_file, candidate_item_sets,
                 frequent_item_sets, item_set_length, pos, rerun, prior>>

Restart ==
  /\ pc \in {"done", "error"}
  /\ pc' = "main"
  /\ prior' = output_file
  /\ rerun' = TRUE
  /\ candidate_item_sets' = <<>>
  /\ frequent_item_sets' = <<>>
  /\ item_set_length' = 0
  /\ pos' = 0
  /\ UNCHANGED <<config, output_file>>

Next ==
  \/ Truncate
  \/ LoadRecord
  \/ FinishLoad
  \/ MineLevel
  \/ Finish
  \/ Restart

Spec == Init /\ [][Next]_vars

(* A started run keeps executing: main() and get_frequent_itemsets() are
   sequential code that never waits.  Progress is the control skeleton of
   a step of the run (the position moves on); every step of the run is a
   Progress step, and one is possible in every state whose pc is "main",
   "load" or "mine". *)
RunStep == Truncate \/ LoadRecord \/ FinishLoad \/ MineLevel \/ Finish

control == <<pc, pos, item_set_length>>

Progress ==
  /\ pc \in {"main", "load", "mine"}
  /\ pc' \in {"load", "mine", "done", "error"}
  /\ pos' \in {pos, pos + 1}
  /\ item_set_length' \in {2, item_set_length, item_set_length + 1}
  /\ control' # control

FairSpec == Spec /\ WF_control(Progress)

RunStepsAreProgress == [][RunStep => Progress]_vars

(* ======================================================================= *)
(* The properties.  Their vocabulary is defined from the log itself, not   *)
(* from the loader's operators.                                            *)
(* ======================================================================= *)
NonInteger(rec) == \E j \in DOMAIN rec : rec[j] = NonNumeric

WellFormedLog == \A i \in DOMAIN transaction_log : ~NonInteger(transaction_log[i])

DistinctItems(rec) == {n \in Digits : \E j \in DOMAIN rec : rec[j] = Token(n)}

Support(S) ==
  Cardinality({i \in DOMAIN transaction_log :
                 S \subseteq DistinctItems(transaction_log[i])})

LogItems ==
  UNION {DistinctItems(transaction_log[i]) : i \in DOMAIN transaction_log}

Qualifies(rec) == Cardinality(DistinctItems(rec)) >= min_itemset_size

LineItems(line) == SubSeq(line, 3, Len(line))

Written == pc # "main"

Ascending(t) == \A j \in 1..(Len(t) - 1) : t[j] < t[j + 1]

(* C1. Count correctness: the count of every record written to the output
   file is exactly the number of transactions of the log, discarded ones
   included, whose distinct items contain the record's item-set. *)
CountCorrectness ==
  Written =>
    \A n \in DOMAIN output_file :
      output_file[n][2] = Support(Range(LineItems(output_file[n])))

CountCorrectnessWitness ==
  /\ pc = "done"
  /\ \E n \in DOMAIN output_file :
       \E i \in DOMAIN transaction_log :
         /\ ~Qualifies(transaction_log[i])
         /\ DistinctItems(transaction_log[i]) \cap
              Range(LineItems(output_file[n])) # {}

(* C2. Completeness: when the run is done, every item-set with at least
   min_itemset_size items that at least sigma transactions contain is in
   the output file exactly once, at the level of its size. *)
Completeness ==
  pc = "done" =>
    \A S \in SUBSET LogItems :
      (/\ Cardinality(S) >= min_itemset_size
       /\ Support(S) >= sigma)
      => Cardinality({n \in DOMAIN output_file :
                        /\ output_file[n][1] = Cardinality(S)
                        /\ LineItems(output_file[n]) = SortInts(S)}) = 1

(* Completeness restricted to item-sets of two or more items (the level
   loop starts at level 2). *)
CompletenessFromLevelTwo ==
  pc = "done" =>
    \A S \in SUBSET LogItems :
      (/\ Cardinality(S) >= min_itemset_size
       /\ Cardinality(S) >= 2
       /\ Support(S) >= sigma)
      => Cardinality({n \in DOMAIN output_file :
                        /\ output_file[n][1] = Cardinality(S)
                        /\ LineItems(output_file[n]) = SortInts(S)}) = 1

(* C3. Soundness of emission: every record written has a level of at least
   min_itemset_size, a count of at least sigma, and lists exactly level
   items, pairwise distinct and in strictly ascending order. *)
EmissionSoundness ==
  Written =>
    \A n \in DOMAIN output_file :
      LET line == output_file[n]
      IN /\ Len(line) >= 2
         /\ line[1] >= min_itemset_size
         /\ line[2] >= sigma
         /\ Len(LineItems(line)) = line[1]
         /\ Ascending(LineItems(line))

EmissionSoundnessWitness ==
  /\ pc = "done"
  /\ sigma >= 2
  /\ min_itemset_size >= 2
  /\ output_file # <<>>
  /\ \E S \in SUBSET LogItems :
       /\ Cardinality(S) = 2
       /\ Support(S) >= 1
       /\ Support(S) < sigma

KeyBefore(a, b) ==
  \/ a[1] < b[1]
  \/ /\ a[1] = b[1]
     /\ \/ a[2] > b[2]
        \/ /\ a[2] = b[2]
           /\ \E j \in 1..a[1] :
                /\ a[j + 2] < b[j + 2]
                /\ \A i \in 1..(j - 1) : a[i + 2] = b[i + 2]

(* C4. Output order: the records of the output file are strictly increasing
   under (level ascending, count descending, item-set ascending). *)
OutputOrder ==
  Written =>
    \A n \in 1..(Len(output_file) - 1) :
      KeyBefore(output_file[n], output_file[n + 1])

OutputOrderWitness ==
  /\ pc = "done"
  /\ \E n \in 1..(Len(output_file) - 1) :
       output_file[n][1] < output_file[n + 1][1]
  /\ \E n \in 1..(Len(output_file) - 1) :
       /\ output_file[n][1] = output_file[n + 1][1]
       /\ output_file[n][2] > output_file[n + 1][2]
  /\ \E n \in 1..(Len(output_file) - 1) :
       /\ output_file[n][1] = output_file[n + 1][1]
       /\ output_file[n][2] = output_file[n + 1][2]

SurvivorCount(k) == Cardinality(DOMAIN frequent_item_sets[k])

LevelLoopStep ==
  /\ (pc # "mine" /\ pc' = "mine") => item_set_length' = 2
  /\ pc = "mine" =>
       IF SurvivorCount(item_set_length - 1) >= item_set_length
       THEN pc' = "mine" /\ item_set_length' = item_set_length + 1
       ELSE pc' = "done" /\ item_set_length' = item_set_length

(* C5. Termination: once the level loop is entered it reaches the terminal
   state; it starts at level 2, moves from level k to level k + 1 exactly
   when level k - 1 has at least k survivors, and stops at the first k for
   which level k - 1 has fewer than k survivors. *)
Termination ==
  /\ [][LevelLoopStep]_vars
  /\ (pc = "mine") ~> (pc = "done")

TerminationWitness ==
  /\ pc = "done"
  /\ item_set_length >= 4
  /\ SurvivorCount(item_set_length - 1) > 0

FirstMalformed ==
  CHOOSE i \in DOMAIN transaction_log :
    /\ NonInteger(transaction_log[i])
    /\ \A j \in 1..(i - 1) : ~NonInteger(transaction_log[j])

MalformedIsFatalState ==
  ~WellFormedLog =>
    /\ pc \notin {"mine", "done"}
    /\ pos < FirstMalformed
    /\ Written => output_file = <<>>
    /\ pc = "error" => pos = FirstMalformed - 1

(* C6. Malformed input is fatal: with a non-integer token anywhere in the
   log the run never enters the level loop, the loader never moves past
   the first malformed record, no record is written, and the run ends in
   the error state. *)
MalformedIsFatal ==
  /\ []MalformedIsFatalState
  /\ (~WellFormedLog) ~> (pc = "error")

MalformedIsFatalWitness ==
  /\ pc = "error"
  /\ pos >= 1
  /\ Qualifies(transaction_log[1])
  /\ ~Qualifies(transaction_log[pos + 1])

NothingCanQualify ==
  \/ \A i \in DOMAIN transaction_log : ~Qualifies(transaction_log[i])
  \/ sigma > Len(transaction_log)

(* C7. Empty-result boundaries: for a well-formed log in which no
   transaction has min_itemset_size distinct items, or with sigma above the
   number of transactions, the run never fails, writes no record, leaves
   level 1 without survivors and performs no level transition. *)
EmptyResult ==
  (WellFormedLog /\ NothingCanQualify) =>
    /\ pc # "error"
    /\ Written => output_file = <<>>
    /\ pc \in {"mine", "done"} =>
         /\ DOMAIN frequent_item_sets[1] = {}
         /\ item_set_length = 2
         /\ DOMAIN frequent_item_sets = {1}

EmptyResultWitness ==
  /\ pc = "done"
  /\ WellFormedLog
  /\ sigma > Len(transaction_log)
  /\ \E i \in DOMAIN transaction_log : Qualifies(transaction_log[i])

(* C8. Idempotent re-run: a run started on the output file a previous run
   left ends with exactly that content, and whatever the file held before
   the first run is gone when a run ends. *)
IdempotentRerun ==
  pc \in {"done", "error"} =>
    /\ StaleRecord \notin Range(output_file)
    /\ rerun => output_file = prior

IdempotentRerunWitness ==
  /\ pc = "done"
  /\ rerun
  /\ Len(output_file) >= 2

Without(S, j) == [i \in 1..(Len(S) - 1) |-> IF i < j THEN S[i] ELSE S[i + 1]]

(* C9. Apriori invariant of the registry: every survivor of a level k >= 2
   has k items, and removing any one of them gives a survivor of level
   k - 1. *)
Antitone ==
  \A k \in DOMAIN frequent_item_sets :
    k >= 2 =>
      \A S \in DOMAIN frequent_item_sets[k] :
        /\ Len(S) = k
        /\ \A j \in 1..k : Without(S, j) \in DOMAIN frequent_item_sets[k - 1]

AntitoneWitness ==
  /\ pc = "done"
  /\ 3 \in DOMAIN frequent_item_sets
  /\ DOMAIN frequent_item_sets[3] # {}
  /\ sigma >= 2

(* the item sets of the transactions the loader retains, in log order *)
RECURSIVE QualifyingItems(_, _)
QualifyingItems(log, minimum) ==
  IF log = <<>> THEN <<>>
  ELSE (IF Cardinality(DistinctItems(Head(log))) >= minimum
        THEN <<DistinctItems(Head(log))>> ELSE <<>>)
         \o QualifyingItems(Tail(log), minimum)

SubsetsFrequent(S, frequent) ==
  \A x \in S : SortInts(S \ {x}) \in DOMAIN frequent

(* the pairs (retained transaction i, size-k item-set S of it) such that
   every size-(k-1) subset of S is in the table frequent *)
Candidates(retained, frequent, k) ==
  {c \in UNION {{<<i, S>> : S \in SUBSET retained[i]} : i \in DOMAIN retained} :
     /\ Cardinality(c[2]) = k
     /\ SubsetsFrequent(c[2], frequent)}

UnderGenerated(cands, retained, frequent, k) ==
  \E c \in Candidates(retained, frequent, k) :
    SortInts(c[2]) \notin Range(cands[c[1]])

(* a whole run as a function of its input: the loader, then the level loop,
   asking at every level whether the join under-generated *)
RECURSIVE LoadAll(_, _, _, _)
LoadAll(cands, reg, log, minimum) ==
  IF log = <<>> THEN [cands |-> cands, reg |-> reg]
  ELSE LET st == LoadStep(cands, reg, Head(log), minimum)
       IN LoadAll(st.cands, st.reg, Tail(log), minimum)

RECURSIVE LoopUnderGenerates(_, _, _, _, _)
LoopUnderGenerates(cands, reg, k, s, retained) ==
  /\ LoopGuard(reg, k)
  /\ LET st == MineStep(cands, reg, k, s)
     IN \/ UnderGenerated(st.cands, retained, Table(reg, k - 1), k)
        \/ LoopUnderGenerates(st.cands, st.reg, k + 1, s, retained)

RunUnderGenerates(log, minimum, s) ==
  LET st == LoadAll(<<>>, <<>>, log, minimum)
  IN LoopUnderGenerates(st.cands, LoadEnd(st.reg, s), 2, s,
                        QualifyingItems(log, minimum))

(* C10 as stated. Under-generation by the prefix join: some input has a
   level k and a retained transaction containing a size-k item-set, all of
   whose size-(k-1) subsets survived level k - 1, that the join does not
   generate as a level-k candidate for that transaction. *)
UnderGenerationExists ==
  /\ pc \in {"main", "load", "mine", "done", "error"}
  /\ \E c \in Configurations :
       /\ \A i \in DOMAIN c[1] : ~NonInteger(c[1][i])
       /\ RunUnderGenerates(c[1], c[2], c[3])

(* C10 as amended: in every state of the level loop, each size-k item-set
   contained in a retained transaction whose size-(k-1) subsets all
   survived level k - 1 is among that transaction's level-k candidates
   (k being the level processed last). *)
NoUnderGeneration ==
  (pc \in {"mine", "done"} /\ item_set_length >= 3) =>
    ~UnderGenerated(candidate_item_sets,
                    QualifyingItems(transaction_log, min_itemset_size),
                    frequent_item_sets[item_set_length - 2],
                    item_set_length - 1)

NoUnderGenerationWitness ==
  /\ pc = "mine"
  /\ item_set_length = 4
  /\ sigma >= 2
  /\ Candidates(QualifyingItems(transaction_log, min_itemset_size),
                frequent_item_sets[2], 3) # {}

=============================================================================
